---- MODULE Spec2Model ----
(***************************************************************************)
(* A model of unified (index.js): the Processor factory, plugin            *)
(* attachment, the synchronous run / stringify call and the asynchronous  *)
(* parse -> run -> stringify pipeline behind process.                      *)
(***************************************************************************)
EXTENDS Integers, Sequences, FiniteSets, TLC

(* ------------------------------------------------------------------ *)
(* Bounds                                                              *)
(* ------------------------------------------------------------------ *)
MaxInst == 3        \* Processor instances constructed
MaxFns == 2         \* transformers in one registry
MaxFiles == 1       \* carrier files the caller holds and passes in
MaxProcs == 2       \* callers of process whose calls are followed
MaxReinit == 2      \* constructor calls made on one existing instance

(* ------------------------------------------------------------------ *)
(* Values                                                              *)
(* ------------------------------------------------------------------ *)
None == "none"                      \* null / undefined tree
Bare == 0                           \* the Processor constructor used as receiver
Undefined == -1                     \* a call that returns undefined
NoFile == 0                         \* null / undefined file
FreshFile == -1                     \* a file a call constructed for itself
FreshRunFile == -2                  \* the file run constructs inside a process call
FreshCompFile == -3                 \* the file stringify constructs inside a process call
Trees == {"T1", "T2"}               \* syntax trees (objects with a type field)
Transformers == {"A", "B"}          \* transformer functions
\* A transformer is a function (node, file, next). What it does when it is
\* invoked: call next() before it returns (sync), call next(err) before it
\* returns (fail), or return and call next later (defer).
Outcomes == {"sync", "fail", "defer"}

NoErr == [kind |-> "none", by |-> 0]
ExpectedNode == [kind |-> "expected-node", by |-> 0]
ParseError == [kind |-> "parse", by |-> 0]
CompileError == [kind |-> "compile", by |-> 0]
TransformError(i) == [kind |-> "transform", by |-> i]

\* an argument of run / stringify / process / Processor
ArgNone == [kind |-> "none", tree |-> None, file |-> NoFile, inst |-> Bare]
ArgTree(t) == [kind |-> "tree", tree |-> t, file |-> NoFile, inst |-> Bare]
ArgFile(f) == [kind |-> "file", tree |-> None, file |-> f, inst |-> Bare]
ArgFn == [kind |-> "fn", tree |-> None, file |-> NoFile, inst |-> Bare]
ArgText == [kind |-> "text", tree |-> None, file |-> NoFile, inst |-> Bare]
ArgSettings == [kind |-> "settings", tree |-> None, file |-> NoFile, inst |-> Bare]
ArgInst(i) == [kind |-> "inst", tree |-> None, file |-> NoFile, inst |-> i]

VARIABLES
    optData,    \* options.data given to unified(options): TRUE when present
    nInst,      \* number of Processor instances constructed so far
    ware,       \* ware[i]: self.ware.fns of instance i, in order
    regd,       \* regd[i]: the transformers passed to use through i since its ware was made
    Parser,     \* Parser[i]: which unherit(Parser) of instance i made self.Parser
    Compiler,   \* Compiler[i]: which unherit(Compiler) made self.Compiler
    data,       \* data[i]: which extend made self.data (0: the prototype's)
    objs,       \* the objects the fields Parser, Compiler and data refer to, and their properties
    space,      \* space[f]: file.namespace(name).tree of the caller's file f
    call,       \* the latest direct run / stringify call
    procs,      \* procs[p]: the latest process or parse call of caller p
    last        \* the last constructor or use call and what it returned

instVars == <<optData, nInst, ware, regd, Parser, Compiler, data, objs>>
fileVars == <<space>>
vars == <<optData, nInst, ware, regd, Parser, Compiler, data, objs,
          space, call, procs, last>>

\* the callers whose process and parse calls are followed
Callers == DOMAIN procs

Insts == 1..MaxInst
Files == 1..MaxFiles

\* what a constructor or use call did: its receiver, its instance argument,
\* the instance it returned and the transformer it registered
Call(op, recv, arg, ret, t) ==
    [op |-> op, recv |-> recv, arg |-> arg, ret |-> ret, t |-> t]
NoCall == Call("none", Bare, Bare, Undefined, None)

NotConstructed == <<Bare, -1>>       \* no Compiler was constructed
NewInstance == -2                   \* a Processor made by instance(this) for the Compiler

\* no direct call made yet
NoCallRec ==
    [op |-> "none", recv |-> Bare, file |-> NoFile, given |-> None, cb |-> "none",
     slotBefore |-> None, slot |-> None, tree |-> None, ret |-> None,
     status |-> "none", pos |-> 0, log |-> <<>>, err |-> NoErr, cbs |-> <<>>,
     fatal |-> NoErr,
     settings |-> ArgNone, compiler |-> NotConstructed, inst |-> Bare, result |-> None]

\* the callers whose process calls may be in flight at the same time
ProcIds == 1..MaxProcs
\* the callers of process and parse that make one call at a time, each after
\* the promise of the one before settled
Awaiting == {1}

\* A process call: the instance it runs on, its input, the context's file
\* and tree, the tree the file's namespace held when process was called
\* (had), the tree in the namespace of a file the call made from text
\* (slot), the value the promise of parse resolved with (parsed), where it
\* stands, the position of the transformer it waits for,
\* what it did so far in order (ev: the Parser constructed and asked to
\* parse, its tree stored, run called, each transformer invoked by name, a
\* deferred continuation invoked (next), run's callback fired (done), the
\* Compiler constructed and asked to compile, compile returned, the promise
\* resolved or rejected), the file given to the transformers, the
\* file the Compiler was constructed with, the file and result the promise
\* resolved with, the error a step reported (raised: what the Parser
\* rejected with, a transformer gave its continuation or threw, the Compiler
\* threw), and the error the promise rejected with.
NoProc ==
    [inst |-> Bare, input |-> "none", file |-> NoFile, tree |-> None, had |-> None,
     slot |-> None, status |-> "none", pos |-> 0, ev |-> <<>>, runFile |-> NoFile,
     compFile |-> NoFile, resFile |-> NoFile, result |-> None, raised |-> NoErr,
     err |-> NoErr, parsed |-> None]

\* The objects behind the fields Parser, Compiler and data. Object 0 of a
\* field is what the factory was given (options.Parser, options.Compiler,
\* options.data, which is also the default on the prototype); object i is
\* the one made for instance i. ref: the object each instance's field
\* refers to; own: the properties set on an object since the factory was
\* called. The data hold plain objects and arrays, and values that are
\* neither (instances of classes, Dates, Maps). nested: for each data
\* object, the data object whose values of the second kind it holds (its
\* own when they were made for it); deep: the properties set on those
\* values.
Original == 0
Fields == {"Parser", "Compiler", "data"}
Props == {"m"}
NoProps == [k \in Fields |-> {}]
NoObjs ==
    [ref |-> [i \in Insts |-> [k \in Fields |-> Original]],
     own |-> [c \in 0..MaxInst |-> NoProps],
     nested |-> [c \in 0..MaxInst |-> c],
     deep |-> [c \in 0..MaxInst |-> {}]]
\* after new Processor() made instance 1 of a family without data
OneObjs ==
    [NoObjs EXCEPT
        !.ref = [i \in Insts |->
                   [k \in Fields |-> IF i = 1 /\ k # "data" THEN 1 ELSE Original]]]

Init ==
    /\ optData \in BOOLEAN
    /\ nInst = 0
    /\ ware = [i \in Insts |-> <<>>]
    /\ regd = [i \in Insts |-> <<>>]
    /\ Parser = [i \in Insts |-> 0]
    /\ Compiler = [i \in Insts |-> 0]
    /\ data = [i \in Insts |-> 0]
    /\ objs = NoObjs
    /\ space = [f \in Files |-> None]
    /\ call = NoCallRec
    /\ procs = [p \in Awaiting |-> NoProc]
    /\ last = NoCall

(* ------------------------------------------------------------------ *)
(* Processor construction                                              *)
(* ------------------------------------------------------------------ *)

\* context instanceof Processor
IsInstance(context) == context \in 1..nInst

\* an unherit that hands back the class it was given
unheritSame(Super, props, fresh) == [id |-> Super, own |-> props]

\* unherit(Super): a new class that inherits from Super (whose own
\* properties are props) and has no property of its own yet
unherit(Super, props, fresh) == [id |-> fresh, own |-> {}]

\* an extend that hands back the object it was given
extendSame(src, props, fresh) == [id |-> src, own |-> props, nested |-> objs.nested[src]]

\* extend(true, {}, src): a new object holding copies of the plain objects
\* and arrays src holds, at every depth, and the very values of src that
\* are neither
extend(src, props, fresh) == [id |-> fresh, own |-> props, nested |-> objs.nested[src]]

\* The body of the constructor run on `self`: a new AttachWare (left to
\* the caller, which may register on it in the same step), the unherited
\* Parser and Compiler, a deep copy of the data when there is one
\* (self.data is the instance's own when it has one, else the default).
ProcessorBody(self) ==
    /\ Parser' = [Parser EXCEPT ![self] = @ + 1]
    /\ Compiler' = [Compiler EXCEPT ![self] = @ + 1]
    /\ data' = [data EXCEPT ![self] = IF optData THEN @ + 1 ELSE 0]
    /\ LET src == objs.ref[self]["data"]
           made == [k \in Fields |->
                     IF k = "data"
                     THEN IF optData
                          THEN extend(src, objs.own[src]["data"], self)
                          ELSE [id |-> src, own |-> objs.own[src]["data"],
                                nested |-> objs.nested[src]]
                     ELSE unherit(Original, objs.own[Original][k], self)]
           nest == made["data"].nested
       IN  objs' = [ref |-> [objs.ref EXCEPT ![self] = [k \in Fields |-> made[k].id]],
                    own |-> [c \in 0..MaxInst |->
                               [k \in Fields |-> IF c = made[k].id THEN made[k].own
                                                 ELSE objs.own[c][k]]],
                    nested |-> [objs.nested EXCEPT ![made["data"].id] = nest],
                    deep |-> objs.deep]

\* an instance(context) that keeps the first instance it made as the default
instanceMemo(context) ==
    IF IsInstance(context) THEN context ELSE IF nInst >= 1 THEN 1 ELSE nInst + 1

\* instance(context): context when it is an instance, else new Processor()
instance(context) == IF IsInstance(context) THEN context ELSE nInst + 1

\* the effect of instance(context) on everything but the registry
Materialize(context) ==
    IF IsInstance(context)
    THEN UNCHANGED <<nInst, Parser, Compiler, data, objs>>
    ELSE /\ nInst' = nInst + 1
         /\ ProcessorBody(nInst + 1)

\* new Processor() / Processor(): a new instance with an empty registry
Construct ==
    /\ nInst < MaxInst
    /\ nInst' = nInst + 1
    /\ ProcessorBody(nInst + 1)
    /\ ware' = [ware EXCEPT ![nInst + 1] = <<>>]
    /\ last' = Call("new", Bare, Bare, nInst + 1, None)
    /\ UNCHANGED <<optData, regd, fileVars, call, procs>>

\* Processor(processor) or new Processor(processor): the argument is not
\* looked at; the receiver is not an instance (or is the object `new` made),
\* so a new instance is constructed and returned.
ConstructFrom(p) ==
    /\ IsInstance(p)
    /\ nInst < MaxInst
    /\ nInst' = nInst + 1
    /\ ProcessorBody(nInst + 1)
    /\ ware' = [ware EXCEPT ![nInst + 1] = <<>>]
    /\ last' = Call("ctorArg", Bare, p, nInst + 1, None)
    /\ UNCHANGED <<optData, regd, fileVars, call, procs>>

\* Processor.call(p): the receiver is an instance, the body runs on it
\* again and the call returns undefined.
ConstructOn(p) ==
    /\ IsInstance(p)
    /\ Parser[p] <= MaxReinit
    /\ ProcessorBody(p)
    /\ ware' = [ware EXCEPT ![p] = <<>>]
    /\ regd' = [regd EXCEPT ![p] = <<>>]
    /\ last' = Call("ctorRecv", p, p, Undefined, None)
    /\ UNCHANGED <<optData, nInst, fileVars, call, procs>>

\* Code holding instance i sets property m on the object its field k refers
\* to: a plugin attached to i patching this.Parser or this.Compiler, or a
\* caller writing into i.data (which is null in a family without data).
setProp(i, k, m) ==
    /\ IsInstance(i)
    /\ k = "data" => optData
    /\ m \notin objs.own[objs.ref[i][k]][k]
    /\ objs' = [objs EXCEPT !.own[objs.ref[i][k]][k] = @ \cup {m}]
    /\ last' = Call("set", i, Bare, Undefined, k)
    /\ UNCHANGED <<optData, nInst, ware, regd, Parser, Compiler, data,
                   fileVars, call, procs>>

\* Code holding instance i sets property m on a value nested in i.data that
\* is neither a plain object nor an array
setDeep(i, m) ==
    LET holder == objs.nested[objs.ref[i]["data"]]
    IN  /\ IsInstance(i)
        /\ optData
        /\ m \notin objs.deep[holder]
        /\ objs' = [objs EXCEPT !.deep[holder] = @ \cup {m}]
        /\ last' = Call("set", i, Bare, Undefined, "deep")
        /\ UNCHANGED <<optData, nInst, ware, regd, Parser, Compiler, data,
                       fileVars, call, procs>>

\* a plugin patches the Parser or the Compiler of the instance it is attached to
PatchClass == \E i \in 1..nInst, k \in {"Parser", "Compiler"}, m \in Props : setProp(i, k, m)
\* a caller writes into the data of an instance
SetData == \E i \in 1..nInst, m \in Props : setProp(i, "data", m)
\* a caller writes into a value of a class held in the data of an instance
SetDeep == \E i \in 1..nInst, m \in Props : setDeep(i, m)

(* ------------------------------------------------------------------ *)
(* use                                                                 *)
(* ------------------------------------------------------------------ *)

\* a use that registers on the ware of every instance, as one shared by
\* the family would
wareUseShared(self, fns, t) ==
    [i \in Insts |-> IF i = self THEN Append(fns, t)
                     ELSE IF i <= nInst THEN Append(ware[i], t) ELSE ware[i]]

\* self.ware.use(transformer): the transformer goes to the end of the fns
\* of self's own ware, which is `fns` so far
wareUse(self, fns, t) == [ware EXCEPT ![self] = Append(fns, t)]

\* use called on receiver `context` (an instance or the bare class)
use(context, t) ==
    LET self == instance(context)
        isNew == ~IsInstance(context)
        fns == IF isNew THEN <<>> ELSE ware[self]
    IN  /\ self <= MaxInst
        /\ Len(fns) < MaxFns
        /\ Materialize(context)
        /\ ware' = wareUse(self, fns, t)
        /\ regd' = [regd EXCEPT ![self] = Append(@, t)]
        /\ last' = Call("use", context, Bare, self, t)
        /\ UNCHANGED <<optData, fileVars, call, procs>>

UseInst == \E i \in 1..nInst, t \in Transformers : use(i, t)
UseBare == \E t \in Transformers : use(Bare, t)

(* ------------------------------------------------------------------ *)
(* Carrier files and tree resolution                                   *)
(* ------------------------------------------------------------------ *)

\* new VFile(file): a VFile is returned as it is, anything else (nothing,
\* a string) gives a newly constructed file with an empty namespace
VFile(arg) == IF arg.kind = "file" THEN arg.file ELSE FreshFile

\* file.namespace(name).tree at the start of a call
namespace(f) == IF f \in Files THEN space[f] ELSE None

\* node && !node.type: the first argument is something, and not a tree
Untyped(a) == a.kind # "none" /\ a.kind # "tree"

\* a resolution that makes up a tree when there is none
resolveNodeDefault(node, f) ==
    IF node # None THEN node
    ELSE IF namespace(f) # None THEN namespace(f) ELSE "T1"

\* if (!node) node = space.tree || node
resolveNode(node, f) == IF node = None THEN namespace(f) ELSE node

\* a resolution that never stores the tree it was given
filledNever(node, before) == before

\* a resolution that stores the tree it was given over the one in place
filledOverwrite(node, before) == IF node # None THEN node ELSE before

\* else if (!space.tree) space.tree = node: the tree left in the namespace
filled(node, before) == IF node # None /\ before = None THEN node ELSE before

\* the namespaces of the caller's files after that
fillSpace(node, f) ==
    IF f \in Files THEN [space EXCEPT ![f] = filled(node, space[f])] ELSE space

(* ------------------------------------------------------------------ *)
(* The transformers of one run (ware.run)                              *)
(* ------------------------------------------------------------------ *)

\* ware.run that goes on to the next function after one reported an error
RECURSIVE wareRunGoesOn(_, _, _, _)
wareRunGoesOn(fns, outs, i, log) ==
    IF i > Len(fns)
    THEN [status |-> IF \E k \in 1..Len(fns) : outs[k] = "fail" THEN "failed" ELSE "done",
          pos |-> i, log |-> log,
          err |-> IF \E k \in 1..Len(fns) : outs[k] = "fail"
                  THEN TransformError(CHOOSE k \in 1..Len(fns) : outs[k] = "fail")
                  ELSE NoErr]
    ELSE IF outs[i] = "defer"
         THEN [status |-> "waiting", pos |-> i, log |-> Append(log, fns[i]), err |-> NoErr]
         ELSE wareRunGoesOn(fns, outs, i + 1, Append(log, fns[i]))

\* next() of ware.run from position i: the functions are invoked in turn;
\* one that calls next() lets the next start at once, one that calls
\* next(err) ends the run with it, one that defers leaves the run waiting
\* for it.
RECURSIVE wareRun(_, _, _, _)
wareRun(fns, outs, i, log) ==
    IF i > Len(fns)
    THEN [status |-> "done", pos |-> i, log |-> log, err |-> NoErr]
    ELSE LET log2 == Append(log, fns[i])
         IN  CASE outs[i] = "sync" -> wareRun(fns, outs, i + 1, log2)
               [] outs[i] = "fail" ->
                    [status |-> "failed", pos |-> i, log |-> log2, err |-> TransformError(i)]
               [] OTHER ->
                    [status |-> "waiting", pos |-> i, log |-> log2, err |-> NoErr]

\* What reaches done: nothing while the run waits, else its error or null.
\* Each transformer is invoked inside a wrapper that catches what is thrown
\* below it and gives it to next again. A callback of the caller returns;
\* the default callback throws the error it is given, so each of the
\* `frames` transformers that have not returned yet hands it the error once
\* more before the error leaves the run.
Delivered(cb, w, frames) ==
    CASE w.status = "waiting" -> <<>>
      [] w.status = "failed" /\ cb = "bail" -> [k \in 1..(frames + 1) |-> w.err]
      [] OTHER -> <<w.err>>

(* ------------------------------------------------------------------ *)
(* Records of direct calls                                            *)
(* ------------------------------------------------------------------ *)

\* The record of a direct call: the receiver, the file it worked on, the tree
\* argument left after the arguments were sorted out (given), the tree in
\* the file's namespace when the call began (slotBefore), the tree it
\* resolved and handed to the transformers or the Compiler (tree), the tree
\* it returned (ret: none when the call threw), its state, the transformers
\* invoked so far (log), the errors its callback received (cbs), the error
\* the default callback threw (fatal), and for stringify the
\* settings, the Compiler used, the instance handed to it and its result.
CallRec(op, recv, file, given, cb) ==
    [op |-> op, recv |-> recv, file |-> file, given |-> given, cb |-> cb,
     slotBefore |-> namespace(file), slot |-> namespace(file), tree |-> None, ret |-> None,
     status |-> "threw", pos |-> 0, log |-> <<>>, err |-> ExpectedNode, cbs |-> <<>>,
     fatal |-> NoErr,
     settings |-> ArgNone, compiler |-> NotConstructed, inst |-> Bare, result |-> None]

FirstArgs == {ArgNone} \cup {ArgTree(t) : t \in Trees} \cup {ArgFile(f) : f \in Files}
FileArgs == {ArgNone} \cup {ArgFile(f) : f \in Files}

\* what the transformers of a registry do when invoked; a run stops at the
\* first that fails or defers, so the ones after it are not told apart
AllSync(fns) == [i \in 1..Len(fns) |-> "sync"]
OutcomesOf(fns) ==
    {AllSync(fns)} \cup
    {[AllSync(fns) EXCEPT ![k] = o] : k \in 1..Len(fns), o \in Outcomes}
fnsOf(recv) == IF IsInstance(recv) THEN ware[recv] ELSE <<>>

(* ------------------------------------------------------------------ *)
(* run                                                                 *)
(* ------------------------------------------------------------------ *)

\* self.ware && self.ware.fns: the constructor itself has no ware
hasWare(recv) == IsInstance(recv)

\* a default callback that takes the error and does nothing
bailQuiet(cb, w) == NoErr

\* done = typeof done === 'function' ? done : bail: the default callback
\* throws the error it is given; what it throws when the transformers end
\* as w
bail(cb, w) == IF cb = "bail" /\ w.status = "failed" THEN w.err ELSE NoErr

\* a run that returns only once its transformers are through
returnedAtEnd(node, cb, w) == IF w.status = "waiting" THEN None ELSE node

\* return node: reached unless the default callback threw below run,
\* which happens when a transformer reported its error before returning
returned(node, cb, w) == IF bail(cb, w) # NoErr THEN None ELSE node

\* run(a1, a2, a3) on receiver recv. a1: nothing, a tree or a file;
\* a2: nothing, a file or a callback; a3: nothing or a callback.
run(recv, a1, a2, a3, outs) ==
    LET done0 == IF a2.kind = "fn" THEN a2 ELSE a3
        file0 == IF a2.kind = "fn" THEN ArgNone ELSE a2
        swap == file0.kind = "none" /\ Untyped(a1)
        file1 == IF swap THEN a1 ELSE file0
        node1 == IF swap THEN None ELSE a1.tree
        file == VFile(file1)
        node == resolveNode(node1, file)
        cb == IF done0.kind = "fn" THEN "user" ELSE "bail"
        rec == CallRec("run", recv, file, node1, cb)
    IN  /\ node = None => outs = AllSync(fnsOf(recv))
        /\ space' = fillSpace(node1, file)
        /\ IF node = None
           THEN call' = rec
           ELSE \E w \in {IF hasWare(recv)
                         THEN wareRun(ware[recv], outs, 1, <<>>)
                         ELSE [status |-> "done", pos |-> 1, log |-> <<>>, err |-> NoErr]} :
                    call' = [rec EXCEPT
                        !.slot = filled(node1, rec.slotBefore),
                        !.tree = node, !.ret = returned(node, cb, w),
                        !.status = w.status, !.pos = w.pos,
                        !.log = w.log, !.err = w.err,
                        !.cbs = Delivered(cb, w, w.pos),
                        !.fatal = bail(cb, w)]
        /\ UNCHANGED <<instVars, procs, last>>

\* the transformer that deferred invokes its continuation, with or without
\* an error, and the run goes on from the next function; run has returned,
\* so what the default callback throws goes up through the continuation
runContinue(ok, outs) ==
    /\ call.status = "waiting"
    /\ \E w \in {IF ok
                 THEN wareRun(ware[call.recv], outs, call.pos + 1, call.log)
                 ELSE [status |-> "failed", pos |-> call.pos, log |-> call.log,
                       err |-> TransformError(call.pos)]} :
            call' = [call EXCEPT !.status = w.status, !.pos = w.pos,
                        !.log = w.log, !.err = w.err,
                        !.cbs = call.cbs \o Delivered(call.cb, w, w.pos - call.pos),
                        !.fatal = bail(call.cb, w)]
    /\ UNCHANGED <<instVars, fileVars, procs, last>>

RunOn(receivers, firsts, seconds) ==
    \E recv \in receivers :
        \E outs \in OutcomesOf(fnsOf(recv)) :
            \E a1 \in firsts, a2 \in seconds, a3 \in {ArgNone, ArgFn} :
                /\ a2.kind = "fn" => a3.kind = "none"
                /\ a1.kind = "file" => a2.kind # "file"
                /\ run(recv, a1, a2, a3, outs)

\* processor.run with any arguments
RunCall == RunOn(1..nInst, FirstArgs, FileArgs \cup {ArgFn})
\* Processor.run(tree) and Processor.run(tree, done)
RunBare == RunOn({Bare}, {ArgTree(t) : t \in Trees}, {ArgNone, ArgFn})

RunContinue ==
    \E ok \in BOOLEAN :
        \E outs \in OutcomesOf(fnsOf(call.recv)) : runContinue(ok, outs)

(* ------------------------------------------------------------------ *)
(* stringify                                                           *)
(* ------------------------------------------------------------------ *)

\* new CustomCompiler(file, ...).compile(): the Compiler compiles the tree
\* it finds in the namespace of the file it was constructed with, or throws
compile(tree, cOut) == IF cOut = "ok" THEN tree ELSE None

\* (this && this.Compiler) || Compiler: the instance whose Compiler is
\* used and which of its clones, <<Bare, 0>> for the one given to unified
CustomCompiler(recv) == IF IsInstance(recv) THEN <<recv, Compiler[recv]>> ELSE <<Bare, 0>>

\* a stringify that keeps a file given as second argument as its file when
\* there are no settings
settingsAbsentNoFile(a2, a3) == a3.kind = "none" /\ a2.kind # "file"

\* settings === null || settings === undefined: the second argument is
\* taken for the settings and the file is cleared
settingsAbsent(a2, a3) == a3.kind = "none"

\* stringify(a1, a2, a3) on receiver recv. a1: nothing, a tree or a file;
\* a2: nothing or a file; a3: nothing or a settings object. The instance
\* made for the Compiler when the receiver is the bare class is known to
\* the Compiler only.
stringify(recv, a1, a2, a3, cOut) ==
    LET shift == settingsAbsent(a2, a3)
        settings == IF shift THEN a2 ELSE a3
        file0 == IF shift THEN ArgNone ELSE a2
        swap == file0.kind = "none" /\ Untyped(a1)
        file1 == IF swap THEN a1 ELSE file0
        node1 == IF swap THEN None ELSE a1.tree
        file == VFile(file1)
        node == resolveNode(node1, file)
        rec == CallRec("stringify", recv, file, node1, "none")
    IN  /\ node = None => cOut = "ok"
        /\ space' = fillSpace(node1, file)
        /\ IF node = None
           THEN call' = rec
           ELSE call' = [rec EXCEPT
                    !.slot = filled(node1, namespace(file)),
                    !.tree = node, !.settings = settings,
                    !.compiler = CustomCompiler(recv),
                    !.inst = IF IsInstance(recv) THEN recv ELSE NewInstance,
                    !.status = IF cOut = "ok" THEN "compiled" ELSE "failed",
                    !.err = IF cOut = "ok" THEN NoErr ELSE CompileError,
                    !.result = compile(filled(node1, namespace(file)), cOut)]
        /\ UNCHANGED <<instVars, procs, last>>

StringifyOn(receivers, firsts, seconds) ==
    \E recv \in receivers, a1 \in firsts, a2 \in seconds,
       a3 \in {ArgNone, ArgSettings}, cOut \in {"ok", "throw"} :
        /\ a1.kind = "file" => (a2.kind # "file" \/ a3.kind = "none")
        /\ stringify(recv, a1, a2, a3, cOut)

\* processor.stringify with any arguments
StringifyCall == StringifyOn(1..nInst, FirstArgs, FileArgs)
\* Processor.stringify(tree) and Processor.stringify(tree, null, settings)
StringifyBare == StringifyOn({Bare}, {ArgTree(t) : t \in Trees}, {ArgNone})

(* ------------------------------------------------------------------ *)
(* process and the pipeline                                            *)
(* ------------------------------------------------------------------ *)

InFlight(P) == P.status \in {"parsing", "stored", "ready", "transforming"}

\* the tree in the namespace of file f as process call P sees it
slotOf(P, sp, f) ==
    IF f \in Files THEN sp[f] ELSE IF f = FreshFile THEN P.slot ELSE None

\* file.namespace(name).tree = t on file f
setSlot(P, sp, f, t) ==
    [p |-> IF f = FreshFile THEN [P EXCEPT !.slot = t] ELSE P,
     space |-> IF f \in Files THEN [sp EXCEPT ![f] = t] ELSE sp]

\* third step: ctx.result = ctx.context.stringify(ctx.tree, ctx.file,
\* ctx.settings), then the callback given to pipeline.run. The settings are
\* never absent; without a context file stringify constructs a file.
\* Without a tree in the context and in the file's namespace (another call
\* emptied it since the second step) stringify throws before it constructs
\* a Compiler, and the pipeline rejects.
stringifyStep(P, sp, cOut) ==
    LET file == IF P.file = NoFile THEN FreshCompFile ELSE P.file
        before == slotOf(P, sp, file)
        node == IF P.tree = None THEN before ELSE P.tree
        after == setSlot(P, sp, file, filled(P.tree, before))
        Q == [after.p EXCEPT !.compFile = file]
    IN  IF node = None
        THEN [p |-> [Q EXCEPT !.status = "rejected", !.err = ExpectedNode,
                        !.raised = ExpectedNode, !.ev = @ \o <<"reject">>],
              space |-> after.space]
        ELSE IF cOut = "ok"
        THEN [p |-> [Q EXCEPT !.status = "resolved", !.resFile = P.file,
                        !.result = compile(filled(P.tree, before), cOut),
                        !.ev = @ \o <<"Compiler", "compiled", "resolve">>],
              space |-> after.space]
        ELSE [p |-> [Q EXCEPT !.status = "rejected", !.err = CompileError,
                        !.raised = CompileError,
                        !.ev = @ \o <<"Compiler", "reject">>],
              space |-> after.space]

\* a pipeline that goes on to the third step whatever the second reported
afterTransformSwallow(P, sp, w, cOut) ==
    LET Q == [P EXCEPT !.pos = w.pos, !.ev = @ \o w.log]
    IN  IF w.status = "waiting"
        THEN [p |-> [Q EXCEPT !.status = "transforming"], space |-> sp]
        ELSE stringifyStep([Q EXCEPT !.ev = @ \o <<"done">>], sp, cOut)

\* a pipeline that does not wait for a transformer that deferred
afterTransformNoWait(P, sp, w, cOut) ==
    LET Q == [P EXCEPT !.pos = w.pos, !.ev = @ \o w.log]
    IN  IF w.status = "failed"
        THEN [p |-> [Q EXCEPT !.status = "rejected", !.err = w.err,
                        !.ev = @ \o <<"done", "reject">>],
              space |-> sp]
        ELSE stringifyStep([Q EXCEPT !.ev = @ \o <<"done">>], sp, cOut)

\* a pipeline whose callback is not invoked when a transformer reported an
\* error, so that the promise stays as it is
afterTransformLost(P, sp, w, cOut) ==
    LET Q == [P EXCEPT !.pos = w.pos, !.ev = @ \o w.log]
    IN  CASE w.status = "waiting" ->
                [p |-> [Q EXCEPT !.status = "transforming"], space |-> sp]
          [] w.status = "failed" ->
                [p |-> [Q EXCEPT !.status = "lost"], space |-> sp]
          [] OTHER -> stringifyStep([Q EXCEPT !.ev = @ \o <<"done">>], sp, cOut)

\* what follows the transformers: nothing while one is waited for, the
\* rejection when one reported an error, else the third step
afterTransform(P, sp, w, cOut) ==
    LET Q == [P EXCEPT !.pos = w.pos, !.ev = @ \o w.log]
    IN  CASE w.status = "waiting" ->
                [p |-> [Q EXCEPT !.status = "transforming"], space |-> sp]
          [] w.status = "failed" ->
                [p |-> [Q EXCEPT !.status = "rejected", !.err = w.err,
                           !.ev = @ \o <<"done", "reject">>],
                 space |-> sp]
          [] OTHER -> stringifyStep([Q EXCEPT !.ev = @ \o <<"done">>], sp, cOut)

\* second step: ctx.context.run(ctx.tree, ctx.file, next). Without a
\* context file run constructs a file; without a tree it throws and the
\* pipeline rejects.
transformStep(P, sp, fns, outs, cOut) ==
    LET file == IF P.file = NoFile THEN FreshRunFile ELSE P.file
        node == IF P.tree = None THEN slotOf(P, sp, file) ELSE P.tree
        after == setSlot(P, sp, file, filled(P.tree, slotOf(P, sp, file)))
        Q == [after.p EXCEPT !.runFile = file, !.ev = @ \o <<"run">>]
        w == wareRun(fns, outs, 1, <<>>)
    IN  IF node = None
        THEN [p |-> [Q EXCEPT !.status = "rejected", !.err = ExpectedNode,
                        !.raised = ExpectedNode, !.ev = @ \o <<"reject">>],
              space |-> after.space]
        ELSE afterTransform([Q EXCEPT !.raised = w.err], after.space, w, cOut)

\* a first step that also looks for a tree in the file's namespace
skipParseSlot(P) == P.tree # None \/ P.had # None

\* first step: if (ctx.tree) return
skipParse(P) == P.tree # None

\* process(value, settings) on receiver recv, the promise executor and the
\* first step included: the parse step is left out when ctx.tree is there,
\* else the Parser is constructed and its parse() awaited.
process(p, recv, value, outs, cOut) ==
    LET self == instance(recv)
        isFile == value.kind \in {"text", "file"}
        P == [NoProc EXCEPT !.inst = self, !.input = value.kind,
                !.file = IF isFile THEN VFile(value) ELSE NoFile,
                !.had = IF isFile THEN namespace(VFile(value)) ELSE None,
                !.tree = IF isFile THEN None ELSE value.tree]
    IN  /\ ~InFlight(procs[p])
        /\ self <= MaxInst
        /\ Materialize(recv)
        /\ ware' = [ware EXCEPT ![self] = fnsOf(recv)]
        /\ \E next \in {IF skipParse(P)
                        THEN transformStep(P, space, fnsOf(recv), outs, cOut)
                        ELSE [p |-> [P EXCEPT !.status = "parsing", !.ev = <<"Parser">>],
                              space |-> space]} :
                /\ procs' = [procs EXCEPT ![p] = next.p]
                /\ space' = next.space
        /\ UNCHANGED <<optData, regd, call, last>>

\* The promise of the Parser settles. Resolved with a tree: the callback
\* parse put on it stores the tree in the file's namespace and passes it
\* on; the callbacks of the first step and of the pipeline come in later
\* turns. Rejected: the rejection goes down the same promises, nothing is
\* stored, and the pipeline's callback rejects.
parseSettle(p, ok, node) ==
    LET P == procs[p]
    IN  /\ P.status = "parsing"
        /\ \E stored \in {setSlot(P, space, P.file, node)} :
            \E next \in {IF ok
                          THEN [p |-> [stored.p EXCEPT !.status = "stored", !.parsed = node,
                                          !.ev = @ \o <<"parsed">>],
                                space |-> stored.space]
                          ELSE [p |-> [P EXCEPT !.status = "rejected", !.err = ParseError,
                                          !.raised = ParseError, !.ev = @ \o <<"reject">>],
                                space |-> space]} :
                /\ procs' = [procs EXCEPT ![p] = next.p]
                /\ space' = next.space
        /\ UNCHANGED <<instVars, call, last>>

\* the callback the first step put on the promise of parse:
\* tree => { ctx.tree = tree }
treeSet(p) ==
    LET P == procs[p]
    IN  /\ P.status = "stored"
        /\ procs' = [procs EXCEPT ![p] = [P EXCEPT !.tree = P.parsed, !.status = "ready"]]
        /\ UNCHANGED <<instVars, fileVars, call, last>>

\* the promise of the first step resolved: the pipeline goes on to the
\* second step, and from there as far as the transformers let it
transformStart(p, outs, cOut) ==
    LET P == procs[p]
    IN  /\ P.status = "ready"
        /\ \E next \in {transformStep(P, space, ware[P.inst], outs, cOut)} :
                /\ procs' = [procs EXCEPT ![p] = next.p]
                /\ space' = next.space
        /\ UNCHANGED <<instVars, call, last>>

\* the transformer a process call waits for invokes its continuation
transformContinue(p, ok, outs, cOut) ==
    LET P == procs[p]
    IN  /\ P.status = "transforming"
        /\ \E w \in {IF ok
                     THEN wareRun(ware[P.inst], outs, P.pos + 1, <<>>)
                     ELSE [status |-> "failed", pos |-> P.pos, log |-> <<>>,
                           err |-> TransformError(P.pos)]} :
            \E next \in {afterTransform([P EXCEPT !.raised = w.err, !.ev = @ \o <<"next">>],
                                        space, w, cOut)} :
                /\ procs' = [procs EXCEPT ![p] = next.p]
                /\ space' = next.space
        /\ UNCHANGED <<instVars, call, last>>


(* ------------------------------------------------------------------ *)
(* parse                                                               *)
(* ------------------------------------------------------------------ *)

\* a call whose promise has not settled
Unsettled(P) == InFlight(P) \/ P.status = "pending"

\* parse(value, settings) on receiver recv: the file is made of the value,
\* the Parser constructed with it and asked to parse, and the promise of
\* its tree returned. The call is recorded like a process call: input,
\* file, the tree the file's namespace held (had), ev.
parse(p, recv, value) ==
    LET file == VFile(value)
    IN  /\ ~Unsettled(procs[p])
        /\ procs' = [procs EXCEPT ![p] =
                [NoProc EXCEPT !.inst = IF IsInstance(recv) THEN recv ELSE NewInstance,
                    !.input = value.kind, !.file = file, !.had = namespace(file),
                    !.status = "pending", !.ev = <<"Parser">>]]
        /\ UNCHANGED <<instVars, fileVars, call, last>>

\* the promise of the Parser settles: on resolution the tree is stored in
\* the namespace of the file, whatever it held, and the promise of parse
\* resolves with the tree; on rejection the promise of parse rejects
parseResolve(p, ok, node) ==
    LET P == procs[p]
        stored == setSlot(P, space, P.file, node)
    IN  /\ P.status = "pending"
        /\ procs' = [procs EXCEPT ![p] =
                IF ok
                THEN [stored.p EXCEPT !.status = "fulfilled", !.tree = node,
                        !.result = node, !.ev = @ \o <<"parsed", "resolve">>]
                ELSE [P EXCEPT !.status = "refused", !.err = ParseError,
                        !.raised = ParseError, !.ev = @ \o <<"reject">>]]
        /\ space' = IF ok THEN stored.space ELSE space
        /\ UNCHANGED <<instVars, call, last>>

\* processor.parse of a text or of a file the caller holds
ParseCall ==
    \E p \in Awaiting, recv \in 1..nInst, value \in {ArgText} \cup {ArgFile(f) : f \in Files} :
        parse(p, recv, value)

ParseResolve ==
    \E p \in Callers, ok \in BOOLEAN, node \in Trees \cup {None} :
        /\ ~ok => node = None
        /\ parseResolve(p, ok, node)

Inputs == {ArgText} \cup {ArgFile(f) : f \in Files} \cup {ArgTree(t) : t \in Trees}
CompileOutcomes == {"ok", "throw"}

ProcessCall ==
    \E p \in Awaiting, recv \in 1..nInst, cOut \in CompileOutcomes :
        \E outs \in OutcomesOf(fnsOf(recv)), value \in Inputs :
            process(p, recv, value, outs, cOut)

ProcessBare ==
    \E p \in Awaiting, value \in Inputs, cOut \in CompileOutcomes :
        process(p, Bare, value, <<>>, cOut)

ParseSettle ==
    \E p \in Callers, node \in Trees \cup {None}, ok \in BOOLEAN :
        /\ ~ok => node = None
        /\ parseSettle(p, ok, node)

TreeSet == \E p \in Callers : treeSet(p)

TransformStart ==
    \E p \in Callers, cOut \in CompileOutcomes :
        /\ procs[p].status = "ready"
        /\ \E outs \in OutcomesOf(ware[procs[p].inst]) : transformStart(p, outs, cOut)

TransformContinue ==
    \E p \in Callers, cOut \in CompileOutcomes, ok \in BOOLEAN :
        /\ procs[p].status = "transforming"
        /\ \E outs \in OutcomesOf(ware[procs[p].inst]) :
                transformContinue(p, ok, outs, cOut)

\* direct calls on one constructed instance
InitRun ==
    /\ optData = FALSE
    /\ nInst = 1
    /\ ware = [i \in Insts |-> <<>>]
    /\ regd = [i \in Insts |-> <<>>]
    /\ Parser = [i \in Insts |-> IF i = 1 THEN 1 ELSE 0]
    /\ Compiler = [i \in Insts |-> IF i = 1 THEN 1 ELSE 0]
    /\ data = [i \in Insts |-> 0]
    /\ objs = OneObjs
    /\ space = [f \in Files |-> None]
    /\ call = NoCallRec
    /\ procs = [p \in Awaiting |-> NoProc]
    /\ last = Call("new", Bare, Bare, 1, None)

\* construction and use
NextUse == Construct \/ UseInst \/ UseBare
SpecUse == Init /\ [][NextUse]_vars

\* use and run calls on one constructed instance
NextRun == UseInst \/ RunCall \/ RunContinue
SpecRun == InitRun /\ [][NextRun]_vars

\* process calls on one constructed instance, its transformers registered
\* beforehand
Registries == UNION {[1..n -> Transformers] : n \in 0..MaxFns}

InitProcessOf(callers) ==
    /\ optData = FALSE
    /\ nInst = 1
    /\ \E fns \in Registries :
          /\ ware = [i \in Insts |-> IF i = 1 THEN fns ELSE <<>>]
          /\ regd = [i \in Insts |-> IF i = 1 THEN fns ELSE <<>>]
    /\ Parser = [i \in Insts |-> IF i = 1 THEN 1 ELSE 0]
    /\ Compiler = [i \in Insts |-> IF i = 1 THEN 1 ELSE 0]
    /\ data = [i \in Insts |-> 0]
    /\ objs = OneObjs
    /\ space = [f \in Files |-> None]
    /\ call = NoCallRec
    /\ procs = [p \in callers |-> NoProc]
    /\ last = Call("use", 1, Bare, 1, None)

InitProcess == InitProcessOf(Awaiting)
\* the same instance, with every caller followed
InitBoth == InitProcessOf(ProcIds)

NextProcess ==
    ProcessCall \/ ParseSettle \/ TreeSet \/ TransformStart \/ TransformContinue
SpecProcess == InitProcess /\ [][NextProcess]_vars

\* the same, when the promise of every Parser settles, the callbacks put on
\* promises are run, and every transformer that deferred invokes its
\* continuation
SpecProcessFair ==
    /\ SpecProcess
    /\ WF_vars(ParseSettle) /\ WF_vars(TreeSet) /\ WF_vars(TransformStart)
    /\ WF_vars(TransformContinue)

\* run calls with a tree or without, on a file the caller holds, by an
\* instance whose transformers were registered beforehand
RunFile ==
    RunOn(1..nInst, {ArgNone} \cup {ArgTree(t) : t \in Trees}, {ArgFile(f) : f \in Files})
NextFill == RunFile \/ RunContinue
SpecFill == InitProcess /\ [][NextFill]_vars

\* run and stringify calls with any arguments, by an instance whose
\* transformers were registered beforehand
NextDirect == RunCall \/ StringifyCall
SpecDirect == InitProcess /\ [][NextDirect]_vars

\* parse, run and stringify calls on the caller's files, by an instance
\* without transformers
NextSlot == ParseCall \/ ParseResolve \/ RunCall \/ StringifyCall
SpecSlot == InitRun /\ [][NextSlot]_vars

\* calls on the bare class of a unified() made without default data
NextFamily ==
    \/ UseBare \/ RunBare \/ StringifyBare
    \/ ProcessBare \/ ParseSettle \/ TreeSet \/ TransformStart
InitFamily == Init /\ optData = FALSE
SpecFamily == InitFamily /\ [][NextFamily]_vars

\* constructor calls
CallFrom == \E q \in 1..nInst : ConstructFrom(q)
CallOn == \E q \in 1..nInst : ConstructOn(q)
NextCtor == Construct \/ UseInst \/ CallFrom \/ CallOn
SpecCtor == Init /\ [][NextCtor]_vars

\* process calls of several callers on one instance, one call each, in
\* flight at the same time, its transformers registered beforehand. A text
\* and a tree make each call a file of its own; calls given the same file of
\* the caller run on that one file.
ProcessBoth ==
    \E p \in Callers, recv \in 1..nInst, cOut \in CompileOutcomes :
        \E outs \in OutcomesOf(fnsOf(recv)), value \in Inputs :
            /\ procs[p].status = "none"
            /\ process(p, recv, value, outs, cOut)
NextBoth ==
    ProcessBoth \/ ParseSettle \/ TreeSet \/ TransformStart \/ TransformContinue
SpecBoth == InitBoth /\ [][NextBoth]_vars

\* instances constructed while plugins patch the classes, and callers write
\* into the data, of the ones there are
NextOwn == Construct \/ PatchClass \/ SetData \/ SetDeep
SpecOwn == Init /\ [][NextOwn]_vars

(* ------------------------------------------------------------------ *)
(* Properties                                                          *)
(* ------------------------------------------------------------------ *)

\* positions of ev holding event e, and the first of them (0: none)
At(ev, e) == {k \in 1..Len(ev) : ev[k] = e}
Has(ev, e) == At(ev, e) # {}
Idx(ev, e) == IF Has(ev, e) THEN CHOOSE k \in At(ev, e) : \A j \in At(ev, e) : k <= j ELSE 0
\* e is in ev and comes before position k
Before(ev, e, k) == Has(ev, e) /\ Idx(ev, e) < k
\* the transformers invoked, in order
Invoked(ev) == SelectSeq(ev, LAMBDA e : e \in Transformers)
Started(P) == P.status # "none"

\* C1: a run on an instance invokes its transformers one at a time in
\* registration order: what it invoked so far is a prefix of what was
\* registered through use, a run waiting for a transformer has invoked
\* nothing after it, and when a transformer reported an error it is the
\* last one invoked and run's callback received its error and nothing else
\* (a callback of the caller once).
C1_RunInOrder ==
    (call.op = "run" /\ IsInstance(call.recv) /\ call.status # "threw") =>
        /\ Len(call.log) <= Len(regd[call.recv])
        /\ call.log = SubSeq(regd[call.recv], 1, Len(call.log))
        /\ call.status = "waiting" => (call.pos = Len(call.log) /\ call.cbs = <<>>)
        /\ call.status = "failed" =>
              /\ call.err = TransformError(Len(call.log))
              /\ call.cbs # <<>> /\ \A k \in 1..Len(call.cbs) : call.cbs[k] = call.err
              /\ call.cb = "user" => call.cbs = <<call.err>>
        /\ call.status = "done" => call.cbs = <<NoErr>>

\* the first of two registered transformers reported an error to a callback
C1_Witness ==
    /\ call.op = "run" /\ call.status = "failed" /\ call.cb = "user"
    /\ Len(regd[call.recv]) = 2 /\ regd[call.recv][1] # regd[call.recv][2]
    /\ call.log = <<regd[call.recv][1]>>
    /\ call.cbs = <<TransformError(1)>>

\* C2: a process call whose parse, transform or stringify step failed is
\* rejected with the error of that step, ran no later step (no transformer
\* after a Parser rejection, no Compiler after a transformer's error), and
\* is not resolved: it has no file and no result.
C2_RejectsWithStepError ==
    \A p \in Callers :
        LET P == procs[p] IN
        /\ P.raised # NoErr =>
                (P.status = "rejected" /\ P.err = P.raised /\ ~Has(P.ev, "compiled"))
        /\ (Has(P.ev, "Compiler") /\ ~Has(P.ev, "compiled")) =>
                (P.status = "rejected" /\ P.err = CompileError)
        /\ P.status = "rejected" =>
            /\ P.ev[Len(P.ev)] = "reject" /\ ~Has(P.ev, "resolve")
            /\ P.result = None /\ P.resFile = NoFile
            /\ P.err.kind \in {"parse", "transform", "compile", "expected-node"}
            /\ P.err = ParseError =>
                  (~Has(P.ev, "parsed") /\ ~Has(P.ev, "run") /\ Invoked(P.ev) = <<>>
                     /\ ~Has(P.ev, "Compiler"))
            /\ P.err.kind = "transform" =>
                  (P.err = TransformError(Len(Invoked(P.ev))) /\ ~Has(P.ev, "Compiler"))
            /\ P.err = CompileError => Has(P.ev, "Compiler")
        /\ P.status = "resolved" => P.err = NoErr

\* a text was parsed and the second of two transformers reported an error
C2_Witness ==
    \E p \in Callers :
        /\ procs[p].status = "rejected" /\ procs[p].input = "text"
        /\ procs[p].err = TransformError(2)
        /\ Len(Invoked(procs[p].ev)) = 2

\* C3: in a process call a transformer is invoked only after the parse
\* step resolved and stored its tree, or was left out; the Compiler is
\* constructed only after run's callback fired, which is after every
\* registered transformer was invoked and none is still waited for; the
\* promise resolves only after compile returned.
C3_StepsInOrder ==
    \A p \in Callers :
        LET P == procs[p]
            ev == P.ev
        IN  /\ \A k \in 1..Len(ev) : ev[k] \in Transformers =>
                  /\ Before(ev, "run", k)
                  /\ P.tree # None
                  /\ Has(ev, "Parser") => Before(ev, "parsed", k)
                  /\ (Has(ev, "Parser") /\ P.file = FreshFile) => P.slot = P.tree
            /\ P.status = "transforming" => ~Has(ev, "done")
            /\ Has(ev, "done") => \A k \in 1..Len(ev) : ev[k] \in Transformers => k < Idx(ev, "done")
            /\ Has(ev, "Compiler") =>
                  /\ Before(ev, "done", Idx(ev, "Compiler"))
                  /\ Invoked(ev) = ware[P.inst]
            /\ Has(ev, "compiled") => Before(ev, "Compiler", Idx(ev, "compiled"))
            /\ P.status = "resolved" =>
                  (Has(ev, "resolve") /\ Before(ev, "compiled", Idx(ev, "resolve")))

\* a text went through the parse step, a transformer that deferred, and the
\* Compiler
C3_Witness ==
    \E p \in Callers :
        /\ procs[p].status = "resolved" /\ procs[p].input = "text"
        /\ Has(procs[p].ev, "next") /\ Len(Invoked(procs[p].ev)) = 2

\* C4 as claimed: the Parser is not constructed when the input is a file
\* whose namespace already holds a tree.
C4_SkipsOnLeftoverTree ==
    \A p \in Callers :
        (procs[p].input = "file" /\ procs[p].had # None) => ~Has(procs[p].ev, "Parser")

\* C4 as amended: the parse step is left out exactly when the input is
\* itself a tree; for a text or a file the Parser is constructed and asked
\* to parse, also when the file's namespace already holds a tree.
C4_SkipsOnTreeInputOnly ==
    \A p \in Callers :
        Started(procs[p]) => (Has(procs[p].ev, "Parser") <=> procs[p].input # "tree")

\* a file that held a tree was given to process and is being parsed again
C4_Witness ==
    \E p \in Callers :
        /\ procs[p].input = "file" /\ procs[p].had # None
        /\ Has(procs[p].ev, "Parser") /\ Has(procs[p].ev, "parsed")

\* C5: the promise of a process call resolves with a carrier file, never
\* with none, whatever the input.
C5_ResolvesWithFile ==
    \A p \in Callers : procs[p].status = "resolved" => procs[p].resFile # NoFile

\* C6: the transformers, the Compiler and the resolved promise of one
\* process call all have the same file, whatever the input.
C6_OneFile ==
    \A p \in Callers :
        LET P == procs[p] IN
        /\ Has(P.ev, "Compiler") => P.compFile = P.runFile
        /\ P.status = "resolved" => (P.resFile = P.runFile /\ P.resFile = P.compFile)

\* C7 as claimed: a use on the bare class after another returns the same
\* instance, which then holds both transformers.
C7_UseBareMemoized ==
    [][(UseBare /\ last.op = "use") =>
            (last'.ret = last.ret /\ Len(ware'[last'.ret]) = Len(ware[last.ret]) + 1)]_vars

\* the calls on the bare class that register, run and process
C7_EveryUseNew == UseBare => (last'.ret = nInst + 1 /\ ware'[last'.ret] = <<last'.t>>)
C7_NothingRegisteredRuns ==
    /\ \A i \in 1..nInst : Len(ware[i]) <= 1
    /\ call.op = "run" => call.log = <<>>
    /\ \A p \in Callers : Started(procs[p]) =>
            (ware[procs[p].inst] = <<>> /\ Invoked(procs[p].ev) = <<>>)

\* C7 as amended: every use on the bare class constructs and returns a new
\* instance whose registry holds the transformer of that call only, and a
\* later run or process on the bare class invokes none of the transformers
\* so registered (process runs on yet another new instance).
C7_UseBareConstructs == []C7_NothingRegisteredRuns /\ [][C7_EveryUseNew]_vars

\* two uses on the bare class, then a run and a resolved process on it
C7_Witness ==
    /\ nInst >= 3 /\ last.op = "use" /\ last.ret >= 2
    /\ ware[last.ret] = <<last.t>>
    /\ call.op = "run" /\ call.status = "done"
    /\ \E p \in Callers : procs[p].status = "resolved"

\* C8: the registry of every instance holds exactly the transformers
\* registered through that instance, in order, whatever was registered on
\* the bare class or through other instances.
C8_OwnRegistry == \A i \in Insts : ware[i] = regd[i]

\* a use on the bare class while another instance holds transformers of its
\* own
C8_Witness ==
    /\ last.op = "use" /\ last.recv = Bare
    /\ \E j \in 1..nInst : j # last.ret /\ Len(ware[j]) = 2 /\ ware[j][1] # last.t

\* C9: a constructor call on an instance, given as argument or as receiver,
\* returns that instance and changes neither its registry nor its Parser,
\* Compiler and data.
C9_CtorOnInstanceNoOp ==
    [][(CallFrom \/ CallOn) =>
            /\ last'.ret = last'.arg
            /\ ware'[last'.arg] = ware[last'.arg]
            /\ Parser'[last'.arg] = Parser[last'.arg]
            /\ Compiler'[last'.arg] = Compiler[last'.arg]
            /\ data'[last'.arg] = data[last'.arg]]_vars

\* C10: a run or stringify that is given no tree, on a file whose namespace
\* holds none, throws the expected-node error: no transformer is invoked,
\* the callback is not invoked, no Compiler is constructed and the
\* namespace still holds no tree.
C10_ThrowsWithoutTree ==
    (call.op \in {"run", "stringify"} /\ call.given = None /\ call.slotBefore = None) =>
        /\ call.status = "threw" /\ call.err = ExpectedNode
        /\ call.log = <<>> /\ call.cbs = <<>>
        /\ call.compiler = NotConstructed /\ call.result = None /\ call.ret = None
        /\ call.slot = None
        /\ call.file \in Files => space[call.file] = None

\* a run with a callback on the caller's empty file, two transformers
\* registered, threw
C10_Witness ==
    /\ call.op = "run" /\ call.status = "threw" /\ call.cb = "user"
    /\ call.file \in Files /\ IsInstance(call.recv) /\ Len(ware[call.recv]) = 2

\* C11: when run(T, F) was given a tree T and a file F whose namespace held
\* no tree, it left T in the namespace of F, and a run(null, F) that follows
\* it on the same file does not throw, resolves T, hands T to the
\* transformers (all registered ones are started unless one stops the run)
\* and returns T, unless the error of a transformer is thrown by the default
\* callback.
C11_FillThenRead ==
    [][(/\ call.op = "run" /\ call.file \in Files
        /\ call.given \in Trees /\ call.slotBefore = None
        /\ call'.op = "run" /\ call'.given = None /\ call'.file = call.file) =>
            /\ call.slot = call.given /\ space[call.file] = call.given
            /\ call'.slotBefore = call.given
            /\ call'.status # "threw"
            /\ call'.tree = call.given
            /\ call'.fatal = NoErr => call'.ret = call.given
            /\ ware[call'.recv] # <<>> => call'.log # <<>>
            /\ space'[call.file] = call.given]_vars

\* a run without a tree found the tree an earlier run had left in the
\* caller's file, gave it to two transformers and returned it
C11_Witness ==
    /\ call.op = "run" /\ call.file \in Files /\ call.given = None
    /\ call.slotBefore = "T2" /\ call.ret = "T2" /\ call.tree = "T2"
    /\ call.status = "done" /\ Len(call.log) = 2

\* a run or stringify call that was given a tree and did not throw
Explicit(c) == c.op \in {"run", "stringify"} /\ c.given \in Trees /\ c.status # "threw"
\* this step is the resolution of a parse on file f
ParseStored(f) ==
    \E p \in Callers :
        /\ procs[p].status = "pending" /\ procs'[p].status = "fulfilled"
        /\ procs[p].file = f /\ space'[f] = procs'[p].result

\* the tree in a file's namespace changes only when a parse on the file
\* resolves, which always stores the parsed tree, or when a run or stringify
\* given a tree finds the namespace empty, which stores that tree
C12_SlotSteps ==
    /\ \A f \in Files :
          space'[f] # space[f] =>
                \/ ParseStored(f)
                \/ /\ space[f] = None
                   /\ Explicit(call') /\ call'.file = f /\ call'.slotBefore = None
                   /\ space'[f] = call'.given
    /\ \A p \in Callers :
          (procs[p].status = "pending" /\ procs'[p].status = "fulfilled"
                /\ procs[p].file \in Files) =>
             space'[procs[p].file] = procs'[p].result

\* a run or stringify given a tree leaves in the namespace the tree that
\* was there, or its own when there was none; it resolves the tree it was
\* given, and run returns it
C12_ExplicitCall ==
    Explicit(call) =>
        /\ call.slot = IF call.slotBefore = None THEN call.given ELSE call.slotBefore
        /\ call.tree = call.given
        /\ (call.op = "run" /\ call.fatal = NoErr) => call.ret = call.given

\* C12 as claimed: the namespace's tree is replaced only by parse, filled by
\* run and stringify only when empty, and both run and stringify given a
\* tree operate on that tree: the Compiler of stringify compiles it.
C12_ExplicitTreeCompiled ==
    /\ [][C12_SlotSteps]_vars
    /\ [](C12_ExplicitCall /\
          ((Explicit(call) /\ call.status = "compiled") => call.result = call.given))

\* what holds of C12 in the code: the namespace's tree is replaced only by
\* parse, which always stores the parsed tree; run and stringify given a
\* tree store it only in an empty namespace and else leave the stored tree;
\* run hands the given tree to the transformers and returns it, while the
\* Compiler of stringify, which is constructed with the file and not with
\* the tree, compiles the tree the namespace holds after that.
C12_SlotReplacedByParseOnly ==
    /\ [][C12_SlotSteps]_vars
    /\ [](C12_ExplicitCall /\
          ((Explicit(call) /\ call.status = "compiled") => call.result = call.slot))

\* a parse replaced the tree of the caller's file, and a stringify given
\* another tree than the file held compiled the file's tree
C12_Witness ==
    /\ \E p \in Callers :
          /\ procs[p].status = "fulfilled" /\ procs[p].file \in Files
          /\ procs[p].had \in Trees /\ procs[p].result \in Trees \ {procs[p].had}
    /\ call.op = "stringify" /\ call.status = "compiled" /\ call.file \in Files
    /\ call.given \in Trees /\ call.slotBefore \in Trees \ {call.given}
    /\ call.result = call.slotBefore

\* this step is the call stringify(tree, f) of an instance, with no third
\* argument
StringifyTreeFile(f, cOut) ==
    /\ call'.op = "stringify" /\ call'.given \in Trees /\ IsInstance(call'.recv)
    /\ stringify(call'.recv, ArgTree(call'.given), ArgFile(f), ArgNone, cOut)

\* C13 as claimed: stringify(tree, file) without settings takes the file
\* for its carrier file: the tree goes to the file's namespace when that is
\* empty, the Compiler is constructed with the file, and the file is not
\* what the Compiler gets as settings.
C13_SecondIsFile ==
    [][\A f \in Files, cOut \in CompileOutcomes :
          StringifyTreeFile(f, cOut) =>
              /\ call'.file = f
              /\ space'[f] = filled(call'.given, space[f])
              /\ call'.settings.kind # "file"]_vars

\* C13 as amended: stringify(tree, file) without settings takes its second
\* argument for the settings: the Compiler is constructed with a new empty
\* file, in whose namespace the tree is stored and from which it is
\* compiled, and with the given file as settings; the namespace of the
\* given file is not touched.
C13_SecondIsSettings ==
    [][\A f \in Files, cOut \in CompileOutcomes :
          StringifyTreeFile(f, cOut) =>
              /\ call'.file = FreshFile /\ call'.slotBefore = None /\ call'.slot = call'.given
              /\ call'.settings = ArgFile(f)
              /\ call'.compiler = CustomCompiler(call'.recv)
              /\ cOut = "ok" => call'.result = call'.given
              /\ space' = space]_vars

\* stringify(T1, file) compiled T1 from a file of its own while the given
\* file, taken for the settings, holds another tree
C13_Witness ==
    /\ call.op = "stringify" /\ call.status = "compiled"
    /\ call.given = "T1" /\ call.settings.kind = "file" /\ call.file = FreshFile
    /\ space[call.settings.file] = "T2" /\ call.result = "T1"

(* ------------------------------------------------------------------ *)
(* C14                                                                 *)
(* ------------------------------------------------------------------ *)

\* the tree a call resolved: the explicit one, else the one of the slot
Resolved(c) == IF c.given # None THEN c.given ELSE c.slotBefore

C14_Returned ==
    (call.op = "run" /\ call.status \in {"waiting", "done", "failed"}) =>
        /\ call.tree \in Trees /\ call.tree = Resolved(call)
        /\ call.ret # None => call.ret = call.tree
        /\ call.ret = None =>
                call.cb = "bail" /\ call.status = "failed" /\ call.fatal = call.err
        /\ call.status = "waiting" => call.ret = call.tree /\ call.cbs = <<>>

\* C14: run returns, in the same step as the call, the tree it resolved (the
\* explicit argument, else the tree of the slot), whether or not the
\* transformers are through: while a transformer that deferred has not
\* continued, run has returned that tree and its callback has not been
\* invoked; the continuation then invokes the callback and leaves what run
\* returned as it was. (Only a call whose default callback threw the error
\* of a transformer below run returns nothing.)
C14_ReturnsBeforeCallback ==
    /\ []C14_Returned
    /\ [][\A ok \in BOOLEAN :
            \A outs \in OutcomesOf(fnsOf(call.recv)) :
                (call.op = "run" /\ call.status = "waiting" /\ runContinue(ok, outs)) =>
                    /\ call.ret = call.tree /\ call.cbs = <<>>
                    /\ call'.ret = call.ret /\ call'.tree = call.tree
                    /\ call'.status # "waiting" => call'.cbs # <<>>]_vars

\* a run that read the tree of the slot has returned it while its second
\* transformer, which deferred, has not continued
C14_Witness ==
    /\ call.op = "run" /\ call.status = "waiting" /\ call.given = None
    /\ call.file \in Files /\ call.slotBefore = "T2" /\ call.ret = "T2"
    /\ call.cbs = <<>> /\ Len(call.log) = 2

(* ------------------------------------------------------------------ *)
(* C15, C17                                                            *)
(* ------------------------------------------------------------------ *)

\* the properties set on the object that field k of instance i refers to
Seen(o, i, k) == o.own[o.ref[i][k]][k]

\* every constructed instance has, in each of the fields ks, an object that
\* is neither the one the factory was given nor the one of another instance,
\* and the one the factory was given is as it was
OwnObjects(ks) ==
    \A i \in 1..nInst, k \in ks :
        /\ objs.ref[i][k] # Original
        /\ \A j \in 1..nInst : j # i => objs.ref[j][k] # objs.ref[i][k]
        /\ objs.own[Original][k] = {}

\* a step that sets a property through a field in ks of an instance changes
\* the object of that field of that instance, and no other
SetStaysOnInstance(ks) ==
    (last'.op = "set" /\ last'.t \in ks /\ objs' # objs) =>
        /\ Seen(objs', last'.recv, last'.t) # Seen(objs, last'.recv, last'.t)
        /\ \A j \in 1..nInst, k \in Fields :
              (j # last'.recv \/ k # last'.t) => Seen(objs', j, k) = Seen(objs, j, k)
        /\ objs'.own[Original] = objs.own[Original]

\* C15: every constructed instance owns its own clone of the Parser and of
\* the Compiler; a plugin that patches this.Parser or this.Compiler through
\* one instance changes the class of that instance only: not the Parser or
\* Compiler of any other instance, and not the originals the factory was
\* given.
C15_PatchStaysOnInstance ==
    /\ []OwnObjects({"Parser", "Compiler"})
    /\ [][SetStaysOnInstance({"Parser", "Compiler"})]_vars

\* a plugin patched the Parser of instance 1 while instance 2 exists with
\* its Parser untouched
C15_Witness ==
    /\ nInst >= 2 /\ last.op = "set" /\ last.recv = 1 /\ last.t = "Parser"
    /\ Seen(objs, 1, "Parser") = {"m"} /\ Seen(objs, 2, "Parser") = {}

\* the properties set on the values, neither plain objects nor arrays, that
\* the data of instance i hold, and on those the default data hold
SeenDeep(o, i) == o.deep[o.nested[o.ref[i]["data"]]]
DefaultDeep(o) == o.deep[o.nested[Original]]

\* a write into such a value through one instance changes what that
\* instance holds, and neither what another holds nor the default
DeepStaysOnInstance ==
    (last'.op = "set" /\ last'.t = "deep" /\ objs' # objs) =>
        /\ SeenDeep(objs', last'.recv) # SeenDeep(objs, last'.recv)
        /\ \A j \in 1..nInst : j # last'.recv => SeenDeep(objs', j) = SeenDeep(objs, j)
        /\ DefaultDeep(objs') = DefaultDeep(objs)

\* a write into such a value through one instance is a write into the
\* value every instance and the default hold, and changes no plain data
DeepSeenByAll ==
    (last'.op = "set" /\ last'.t = "deep" /\ objs' # objs) =>
        /\ SeenDeep(objs', last'.recv) # SeenDeep(objs, last'.recv)
        /\ \A j \in 1..nInst : SeenDeep(objs', j) = SeenDeep(objs', last'.recv)
        /\ DefaultDeep(objs') = SeenDeep(objs', last'.recv)
        /\ objs'.own = objs.own

\* C17 as claimed: in a family made with default data, every instance holds
\* its own copy of it; writing into the data of one instance, at any depth,
\* changes neither the default of the family nor the data of any other
\* instance.
C17_DataStaysOnInstance ==
    /\ [](optData => OwnObjects({"data"}))
    /\ [][optData => (SetStaysOnInstance({"data"}) /\ DeepStaysOnInstance)]_vars

\* what holds of C17 in the code: every instance holds its own copy of the
\* default data,
\* and a write into a plain object or array of the data of one instance, at
\* any depth, changes neither the default nor the data of another instance;
\* a value that is neither (an instance of a class, a Date, a Map) is not
\* copied: the default and every instance hold the same one, and a write
\* into it through one instance is seen through all.
C17_PlainDataStaysOnInstance ==
    /\ [](optData => OwnObjects({"data"}))
    /\ [][optData => (SetStaysOnInstance({"data"}) /\ DeepSeenByAll)]_vars

\* a caller wrote into the data of instance 1, which instance 2 does not
\* see, and then into a value of a class held in them, which it does
C17_Witness ==
    /\ optData /\ nInst >= 2 /\ last.op = "set" /\ last.recv = 1 /\ last.t = "deep"
    /\ Seen(objs, 1, "data") = {"m"} /\ Seen(objs, 2, "data") = {}
    /\ SeenDeep(objs, 2) = {"m"} /\ DefaultDeep(objs) = {"m"}

(* ------------------------------------------------------------------ *)
(* C16                                                                 *)
(* ------------------------------------------------------------------ *)

\* C16: when run is called without a callback and a transformer reports an
\* error, the default callback receives that error, and nothing else, and
\* throws it: the error goes up to the caller of run before run returns
\* anything, or up through the continuation of the transformer that deferred. No transformer after
\* the failing one is invoked, and no call with a callback, and no call whose
\* transformers all succeed, throws anything this way.
C16_BailThrows ==
    call.op = "run" =>
        /\ (call.cb = "bail" /\ call.status = "failed") =>
              /\ call.err = TransformError(call.pos)
              /\ call.fatal = call.err
              /\ call.cbs # <<>> /\ \A k \in 1..Len(call.cbs) : call.cbs[k] = call.err
              /\ Len(call.log) = call.pos
        /\ call.fatal # NoErr => call.cb = "bail" /\ call.status = "failed"

\* the second transformer of a run without callback reported an error
\* before run returned; the default callback got it from that transformer
\* and again from the wrapper of each of the two, and run threw it instead
\* of returning the tree
C16_Witness ==
    /\ call.op = "run" /\ call.cb = "bail" /\ call.status = "failed"
    /\ call.cbs = <<TransformError(2), TransformError(2), TransformError(2)>>
    /\ call.fatal = TransformError(2) /\ call.ret = None /\ call.tree \in Trees
    /\ Len(call.log) = 2

(* ------------------------------------------------------------------ *)
(* C18                                                                 *)
(* ------------------------------------------------------------------ *)

\* the steps of call P came in order, as in C3, and a call that resolved
\* has the result compiled from the tree of its own context
OwnSteps(P) ==
    LET ev == P.ev
    IN  Started(P) =>
        /\ \A k \in 1..Len(ev) : ev[k] \in Transformers =>
              /\ Before(ev, "run", k)
              /\ Has(ev, "Parser") => Before(ev, "parsed", k)
        /\ Invoked(ev) = SubSeq(ware[P.inst], 1, Len(Invoked(ev)))
        /\ P.status = "transforming" => (~Has(ev, "done") /\ P.pos = Len(Invoked(ev)))
        /\ Has(ev, "Compiler") =>
              (Before(ev, "done", Idx(ev, "Compiler")) /\ Invoked(ev) = ware[P.inst])
        /\ P.status = "resolved" =>
              /\ Before(ev, "compiled", Idx(ev, "resolve"))
              /\ P.tree \in Trees /\ P.result = P.tree
              /\ P.runFile = (IF P.file = NoFile THEN FreshRunFile ELSE P.file)

\* a step of one call leaves the record of every other call as it was
OthersUntouched ==
    \A p \in Callers : procs'[p] # procs[p] =>
        \A q \in Callers : q # p => procs'[q] = procs[q]

\* C18: of the process calls in flight at the same time on one instance,
\* each goes through its own steps in order, a step of one changes nothing
\* of another, and each resolves with the result compiled from its own tree
\* and with its own carrier file: the file of its context, never none.
C18_EachItsOwn ==
    /\ [](\A p \in Callers :
            /\ OwnSteps(procs[p])
            /\ procs[p].status = "resolved" =>
                  (procs[p].resFile # NoFile /\ procs[p].resFile = procs[p].runFile))
    /\ [][OthersUntouched]_vars

\* call p was given no file of the caller that another call was given
Apart(p) ==
    \A q \in Callers :
        (q # p /\ procs[p].file \in Files) => procs[q].file # procs[p].file

\* C18 for calls given a text, or a file no other call was given: the same,
\* the carrier file being the one made of the input. A step of one call
\* changes nothing of another whatever files they were given.
C18_EachItsOwnParsed ==
    /\ [](\A p \in Callers : Apart(p) =>
            /\ OwnSteps(procs[p])
            /\ (procs[p].status = "resolved" /\ procs[p].input # "tree") =>
                  (procs[p].resFile = procs[p].file /\ procs[p].resFile = procs[p].runFile
                     /\ procs[p].resFile = procs[p].compFile))
    /\ [][OthersUntouched]_vars

\* C18 for calls given the same file of the caller: each resolves with the
\* result compiled from its own tree.
C18_SharedFileOwnTree ==
    \A p \in Callers : procs[p].status = "resolved" => procs[p].result = procs[p].tree

\* two calls given the same file, their Parsers resolved one after the
\* other with different trees: both resolved with the tree stored last
C18_SharedFile ==
    /\ procs[1].status = "resolved" /\ procs[2].status = "resolved"
    /\ procs[1].file \in Files /\ procs[2].file = procs[1].file
    /\ procs[1].tree # procs[2].tree
    /\ procs[1].result = procs[2].result /\ space[procs[1].file] = procs[1].result

\* two calls given texts overlapped: the second resolved with its tree
\* while the first, which began before it, still waits for a transformer
C18_Overlap ==
    /\ procs[1].status = "transforming" /\ procs[1].input = "text"
    /\ procs[2].status = "resolved" /\ procs[2].input = "text"
    /\ procs[1].tree # procs[2].tree /\ procs[2].result = procs[2].tree

(* ------------------------------------------------------------------ *)
(* C19                                                                 *)
(* ------------------------------------------------------------------ *)

Settled(P) == P.status \in {"resolved", "rejected"}

\* the promise of call P was settled at most once, as the last thing the
\* call did, and it is not pending once the Compiler returned or threw, a
\* transformer reported an error, or the Parser rejected
SettledOnce(P) ==
    LET n == Cardinality(At(P.ev, "resolve")) + Cardinality(At(P.ev, "reject"))
    IN  Started(P) =>
        /\ n <= 1
        /\ Settled(P) <=> n = 1
        /\ P.status = "resolved" <=> Has(P.ev, "resolve")
        /\ P.status = "rejected" <=> Has(P.ev, "reject")
        /\ n = 1 => P.ev[Len(P.ev)] \in {"resolve", "reject"}
        /\ Has(P.ev, "Compiler") => Settled(P)
        /\ P.raised # NoErr => P.status = "rejected"
        /\ ~Settled(P) => InFlight(P)

\* C19: when the promise of every Parser settles and every transformer that
\* deferred invokes its continuation, every process call settles its
\* promise in the end; and always, a promise is settled at most once, is
\* never both resolved and rejected, and is not pending after the last step
\* of its call.
C19_SettlesOnce ==
    /\ [](\A p \in Callers : SettledOnce(procs[p]))
    /\ \A p \in Awaiting : Started(procs[p]) ~> Settled(procs[p])

\* a call given a text whose two transformers both deferred has resolved
C19_Witness ==
    \E p \in Callers :
        /\ procs[p].status = "resolved" /\ procs[p].input = "text"
        /\ Cardinality(At(procs[p].ev, "next")) = 2
        /\ Cardinality(At(procs[p].ev, "resolve")) = 1

====
